---- MODULE Spec2Model ----
(***************************************************************************)
(* Model of the external-dns-operator reconciliation controller            *)
(* (pkg/operator/controller/controller.go, second revision in the file,    *)
(* with the Deployment code of the same revision).                         *)
(*                                                                         *)
(* One Reconcile pass is one action.  The pass is computed by operators    *)
(* that follow the Go functions one to one; they thread a context record   *)
(* holding the API server's objects, the in-memory copy `edns` the pass    *)
(* works on, and the log of the write calls the pass issued.               *)
(*                                                                         *)
(* API server behaviour the code relies on:                                *)
(*  - the CRD enables the status subresource, so Update() does not change  *)
(*    status and Status().Update() changes only status;                    *)
(*  - a write carrying a resourceVersion that is no longer current is      *)
(*    rejected (Conflict); Update(obj) refreshes obj only, so after a      *)
(*    successful write through a DeepCopy the pass' own `edns` is stale;   *)
(*  - an object with a deletionTimestamp disappears when its last          *)
(*    finalizer is removed;                                                *)
(*  - any call may fail with a transient error (the set `fail`).           *)
(***************************************************************************)
EXTENDS Integers, Sequences, FiniteSets, TLC

\* ------------------------------------------------------------------ bounds
Names == {"a", "b"}
MaxEnvSteps == 2
MaxPages == 2
MaxPerPage == 2

\* ------------------------------------------------------------- constants
Nil == "nil"
ExternalDNSControllerFinalizer == "externaldns.operator.openshift.io/externaldns-controller"
ServiceType == "service"
PublicZoneType == "public"
PrivateZoneType == "private"
AWSProvider == "aws"
AzureProvider == "azure"
GoogleProvider == "google"
AWSPlatformType == "AWS"
AzurePlatformType == "Azure"
GCPPlatformType == "GCP"
OperatorNamespace == "openshift-externaldns-operator"
ExternalDNSImage == "image-1"
InfrastructureName == "infra-1"

OwningExternalDNSLabel == "externaldns.operator.openshift.io/owning-externaldns"
OperandNamespace == "openshift-externaldns"

\* The controller: the API server's objects, the cluster configs, and the
\* record of the last pass.
VARIABLES edns, deploy, scaffold, dnsConfig, infraConfig, budget, last
ctrlVars == <<edns, deploy, scaffold, dnsConfig, infraConfig, budget, last>>

\* The watch on the operand namespace: the last Deployment event with the
\* requests its mapping returned, and the controller's work queue.
VARIABLES event, queue
watchVars == <<event, queue>>

\* The last call of getZoneIDFromTags: the pages the tagging API had, the
\* page whose request failed (0: none), and what the call returned.
VARIABLES zoneCall
zoneVars == <<zoneCall>>

\* The operator's periodic check of the default ExternalDNSes: the two
\* defaults as stored, the dns config the operator was started with, whether
\* the process runs, and the record of the last period.
VARIABLES defaults, opConfig, running, period
opVars == <<defaults, opConfig, running, period>>

auxVars == <<watchVars, zoneVars, opVars>>
vars == <<ctrlVars, auxVars>>

DefaultExternalDNSPublicZoneController == "default-public-zone"
DefaultExternalDNSPrivateZoneController == "default-private-zone"
DefaultNames == {DefaultExternalDNSPrivateZoneController, DefaultExternalDNSPublicZoneController}
NoDefault == [exists |-> FALSE, sources |-> <<>>, zoneType |-> Nil, zoneFilter |-> <<>>]
NoPeriod == [valid |-> FALSE, before |-> [d \in DefaultNames |-> NoDefault],
             ops |-> <<>>, errs |-> {}, panic |-> FALSE]
OperatorIdle ==
    /\ defaults = [d \in DefaultNames |-> NoDefault]
    /\ opConfig = [privateZone |-> "tagged", publicZone |-> "zone-public"]
    /\ running = "stopped"
    /\ period = NoPeriod

NoEvent == [valid |-> FALSE, labels |-> {}, requests |-> <<>>]
WatchIdle == event = NoEvent /\ queue = <<>>
NoZoneCall == [valid |-> FALSE, pages |-> <<>>, failAt |-> 0, id |-> "", err |-> FALSE]
ZoneIdle == zoneCall = NoZoneCall
AuxIdle == WatchIdle /\ ZoneIdle /\ OperatorIdle

\* ------------------------------------------------------------------ types
\* A nil slice and an empty slice are the same stored value (omitempty), so
\* spec.sources, spec.provider.args and spec.provider.zoneFilter are
\* sequences and nil is <<>>.  Pointer fields use Nil for the nil pointer.
NoEDNS ==
    [exists |-> FALSE, baseDomain |-> "", sources |-> <<>>, zoneType |-> Nil,
     providerType |-> Nil, providerArgs |-> <<>>, zoneFilter |-> <<>>,
     statusBaseDomain |-> "", statusProviderType |-> Nil,
     finalizer |-> FALSE, deleting |-> FALSE]

NoDeployment == [exists |-> FALSE, args |-> <<>>, image |-> ""]

\* The four scaffolding objects of ensureExternalDNSNamespace.
ScaffoldKinds == {"Namespace", "ClusterRole", "ClusterRoleBinding", "ServiceAccount"}

\* The API call sites of a Reconcile pass; `fail` is the set of those that
\* return a transient (non-NotFound, non-Conflict) error in the pass.
GetSite(kind) == <<"get", kind>>
CreateSite(kind) == <<"create", kind>>
ConfigSites == {GetSite("DNS"), GetSite("Infrastructure")}
Sites ==
    {GetSite("ExternalDNS")} \cup ConfigSites
    \cup {GetSite(k) : k \in ScaffoldKinds} \cup {CreateSite(k) : k \in ScaffoldKinds}
    \cup {<<"update", "sources">>, <<"list", "ExternalDNS">>,
          <<"status", "baseDomain">>, <<"status", "providerType">>,
          <<"update", "zoneFilter">>, <<"update", "addFinalizer">>,
          <<"update", "removeFinalizer">>, <<"delete", "Deployment">>,
          GetSite("Deployment"), CreateSite("Deployment"), <<"update", "Deployment">>}
\* Every step but the two config reads ends the pass on its first error, so
\* one failing site per pass, or both config reads, covers every outcome.
FailChoices == {{}} \cup {{s} : s \in Sites} \cup {ConfigSites}

\* ---------------------------------------------------------- pass context
\* Then(v, Body) is Body(v) with v evaluated once: the value a statement
\* returned, handed to the statements after it.
Then(v, Body(_)) == CHOOSE r \in {Body(x) : x \in {v}} : TRUE

\* c.ops is the log of the API calls of the pass, each <<site, result>>.
LogOp(c, site, res) == [c EXCEPT !.ops = Append(@, <<site, res>>)]
Err(c) == [c EXCEPT !.err = TRUE]
\* Mutant: an error replaces the errors collected so far.
AddErr_replace(c, label) == [c EXCEPT !.errs = <<label>>, !.err = FALSE]

AddErr(c, label) == [c EXCEPT !.errs = Append(@, label), !.err = FALSE]

\* kclient.Update of the ExternalDNS `obj`.  inPlace: obj is the pass' own
\* edns (which the client refreshes) rather than a DeepCopy of it.
kclientUpdate(c, obj, site, fail, inPlace) ==
    IF site \in fail THEN Err(LogOp(c, site, "error"))
    ELSE IF c.stale \/ ~c.edns[c.name].exists THEN Err(LogOp(c, site, "conflict"))
    ELSE LET stored == c.edns[c.name]
             new == [obj EXCEPT !.statusBaseDomain = stored.statusBaseDomain,
                                !.statusProviderType = stored.statusProviderType,
                                !.deleting = stored.deleting]
             gone == new.deleting /\ ~new.finalizer
         IN [LogOp(c, site, "ok") EXCEPT
                !.edns[c.name] = IF gone THEN NoEDNS ELSE new,
                !.stale = ~inPlace,
                !.mem = IF inPlace THEN new ELSE c.mem]

\* kclient.Status().Update of a DeepCopy `obj` of the pass' edns.
kclientStatusUpdate(c, obj, site, fail) ==
    IF site \in fail THEN Err(LogOp(c, site, "error"))
    ELSE IF c.stale \/ ~c.edns[c.name].exists THEN Err(LogOp(c, site, "conflict"))
    ELSE LET stored == c.edns[c.name]
             new == [stored EXCEPT !.statusBaseDomain = obj.statusBaseDomain,
                                   !.statusProviderType = obj.statusProviderType]
         IN [LogOp(c, site, "ok") EXCEPT !.edns[c.name] = new, !.stale = TRUE]

\* ------------------------------------------------------------ scaffolding
\* Mutant: an absent object is not created.
ensureScaffoldObject_getOnly(c, kind, fail) ==
    IF c.err THEN c
    ELSE IF GetSite(kind) \in fail THEN Err(LogOp(c, GetSite(kind), "error"))
    ELSE IF kind \in c.scaffold THEN LogOp(c, GetSite(kind), "ok")
    ELSE LogOp(c, GetSite(kind), "notfound")

ensureScaffoldObject(c, kind, fail) ==
    IF c.err THEN c
    ELSE IF GetSite(kind) \in fail THEN Err(LogOp(c, GetSite(kind), "error"))
    ELSE IF kind \in c.scaffold THEN LogOp(c, GetSite(kind), "ok")
    ELSE LET g == LogOp(c, GetSite(kind), "notfound")
         IN IF CreateSite(kind) \in fail THEN Err(LogOp(g, CreateSite(kind), "error"))
            ELSE [LogOp(g, CreateSite(kind), "ok") EXCEPT !.scaffold = @ \cup {kind}]

ensureExternalDNSNamespace(c, fail) ==
    Then(ensureScaffoldObject(c, "Namespace", fail), LAMBDA ns :
    Then(ensureScaffoldObject(ns, "ClusterRole", fail), LAMBDA cr :
    Then(ensureScaffoldObject(cr, "ClusterRoleBinding", fail), LAMBDA crb :
    ensureScaffoldObject(crb, "ServiceAccount", fail))))

\* ------------------------------------------------- effective spec / status
\* Mutant: the sources are defaulted whether or not they are set.
enforceEffectiveSourceType_always(c, fail) ==
    IF c.mem.sources = <<ServiceType>> THEN c
    ELSE LET updated == [c.mem EXCEPT !.sources = <<ServiceType>>]
         IN kclientUpdate(c, updated, <<"update", "sources">>, fail, FALSE)

enforceEffectiveSourceType(c, fail) ==
    IF c.mem.sources # <<>> THEN c
    ELSE LET updated == [c.mem EXCEPT !.sources = <<ServiceType>>]
         IN kclientUpdate(c, updated, <<"update", "sources">>, fail, FALSE)

\* Not called by Reconcile.
enforceEffectiveZoneType(c, fail) ==
    IF c.mem.zoneType # Nil THEN c
    ELSE LET updated == [c.mem EXCEPT !.zoneType = PublicZoneType]
         IN kclientUpdate(c, updated, <<"update", "zoneType">>, fail, FALSE)

\* Mutant: the published base domain is never recognised as set.
IsStatusBaseDomainSet_never(e) == FALSE

IsStatusBaseDomainSet(e) == Len(e.statusBaseDomain) # 0

\* dns.Spec.ZoneType == edns.Spec.ZoneType compares two *ZoneType pointers:
\* the list items and the pass' edns are decoded separately, so the
\* pointers are equal only when both are nil.
ZoneTypePtrEqual(p, q) == p = Nil /\ q = Nil

isBaseDomainUniqueForZoneType(c, domain, fail) ==
    IF <<"list", "ExternalDNS">> \in fail THEN [err |-> TRUE, unique |-> FALSE]
    ELSE [err |-> FALSE,
          unique |-> ~\E m \in Names :
                        /\ c.edns[m].exists
                        /\ domain = c.edns[m].statusBaseDomain
                        /\ ZoneTypePtrEqual(c.edns[m].zoneType, c.mem.zoneType)]

\* Mutant: spec.baseDomain is ignored.
effectiveBaseDomain_clusterOnly(e, dnsCfg) == dnsCfg.baseDomain

effectiveBaseDomain(e, dnsCfg) ==
    IF Len(e.baseDomain) > 0 THEN e.baseDomain ELSE dnsCfg.baseDomain

enforceEffectiveBaseDomain(c, dnsCfg, fail) ==
    IF IsStatusBaseDomainSet(c.mem) THEN c
    ELSE LET domain == effectiveBaseDomain(c.mem, dnsCfg)
             u == isBaseDomainUniqueForZoneType(c, domain, fail)
             l == LogOp(c, <<"list", "ExternalDNS">>, IF u.err THEN "error" ELSE "ok")
         IN IF u.err THEN Err(l)
            ELSE IF ~u.unique THEN l
            ELSE kclientStatusUpdate(l, [c.mem EXCEPT !.statusBaseDomain = domain],
                                     <<"status", "baseDomain">>, fail)

\* Mutant: every platform yields the aws provider.
providerTypeForInfra_awsOnly(infra) == AWSProvider

providerTypeForInfra(infra) ==
    CASE infra.platform = AWSPlatformType -> AWSProvider
      [] infra.platform = AzurePlatformType -> AzureProvider
      [] infra.platform = GCPPlatformType -> GoogleProvider
      [] OTHER -> ""

\* Mutant: the zone filter is defaulted whether or not it is set.
enforceEffectiveZoneFilter_always(c, dnsCfg, fail) ==
    IF c.mem.zoneFilter = <<dnsCfg.privateZone>> THEN c
    ELSE LET updated == [c.mem EXCEPT !.zoneFilter = <<dnsCfg.privateZone>>]
         IN kclientUpdate(c, updated, <<"update", "zoneFilter">>, fail, FALSE)

enforceEffectiveZoneFilter(c, dnsCfg, fail) ==
    IF c.mem.zoneFilter # <<>> THEN c
    ELSE LET updated == [c.mem EXCEPT !.zoneFilter = <<dnsCfg.privateZone>>]
         IN kclientUpdate(c, updated, <<"update", "zoneFilter">>, fail, FALSE)

\* Mutant: the published provider is never recognised as set.
IsStatusProviderSet_never(e) == FALSE

IsStatusProviderSet(e) == e.statusProviderType # Nil

enforceEffectiveProvider(c, infra, fail) ==
    IF IsStatusProviderSet(c.mem) THEN c
    ELSE LET p == IF c.mem.providerType # Nil THEN c.mem.providerType
                  ELSE providerTypeForInfra(infra)
         IN kclientStatusUpdate(c, [c.mem EXCEPT !.statusProviderType = p],
                                <<"status", "providerType">>, fail)

\* ---------------------------------------------------------------- finalizer
\* Mutant: a failure to add the finalizer is not reported.
enforceExternalDNSFinalizer_swallow(c, fail) ==
    IF c.mem.finalizer THEN c
    ELSE [kclientUpdate(c, [c.mem EXCEPT !.finalizer = TRUE],
                        <<"update", "addFinalizer">>, fail, TRUE)
            EXCEPT !.err = FALSE, !.mem.finalizer = TRUE]

enforceExternalDNSFinalizer(c, fail) ==
    IF c.mem.finalizer THEN c
    ELSE kclientUpdate(c, [c.mem EXCEPT !.finalizer = TRUE],
                       <<"update", "addFinalizer">>, fail, TRUE)

removeExternalDNSFinalizer(c, fail) ==
    IF ~c.mem.finalizer THEN c
    ELSE kclientUpdate(c, [c.mem EXCEPT !.finalizer = FALSE],
                       <<"update", "removeFinalizer">>, fail, FALSE)

\* --------------------------------------------------------------- deployment
\* A container argument is the sequence of the strings it is concatenated
\* from, so that "--source=" + "service" + "ingress" is a value of its own.
RECURSIVE sourceArgs(_, _)
\* The loop appends to src without resetting it: the i-th argument carries
\* the first i source types.
sourceArgs(sources, i) ==
    IF i > Len(sources) THEN <<>>
    ELSE <<(<<"--source=">> \o SubSeq(sources, 1, i))>> \o sourceArgs(sources, i + 1)

RECURSIVE zoneFilterArgs(_)
zoneFilterArgs(zones) ==
    IF zones = <<>> THEN <<>>
    ELSE (IF Len(Head(zones)) # 0 THEN <<(<<"--zone-id-filter=", Head(zones)>>)>> ELSE <<>>)
         \o zoneFilterArgs(Tail(zones))

TextOwnerID(infra, name) == <<infra.infrastructureName, "/", OperatorNamespace, "/", name>>

awsArgs(e) ==
    <<(<<"--no-aws-evaluate-target-health">>), (<<"--aws-api-retries=3">>)>>
    \o (IF e.zoneType = PublicZoneType THEN <<(<<"--aws-zone-type=public">>)>> ELSE <<>>)
    \o (IF e.zoneType = PrivateZoneType THEN <<(<<"--aws-zone-type=private">>)>> ELSE <<>>)

RECURSIVE providerArgs(_)
providerArgs(as) ==
    IF as = <<>> THEN <<>> ELSE <<(<<Head(as)>>)>> \o providerArgs(Tail(as))

\* *edns.Status.ProviderType and *edns.Spec.ZoneType are dereferenced without
\* a nil check: the pass panics there.
desiredPanics(e) ==
    \/ e.statusProviderType = Nil
    \/ e.statusProviderType = AWSProvider /\ e.zoneType = Nil

desiredExternalDNSDeployment(e, name, image, infra) ==
    [exists |-> TRUE,
     image |-> image,
     args |-> <<(<<"--registry=txt">>), (<<"--txt-owner-id=">> \o TextOwnerID(infra, name)),
                (<<"--provider=", e.statusProviderType>>)>>
              \o sourceArgs(e.sources, 1)
              \o (IF e.statusProviderType = AWSProvider THEN awsArgs(e) ELSE <<>>)
              \o providerArgs(e.providerArgs)
              \o zoneFilterArgs(e.zoneFilter)]

deploymentConfigChanged(current, expected) ==
    ~(current.args = expected.args /\ current.image = expected.image)

updateExternalDNSDeployment(c, current, desired, fail) ==
    IF ~deploymentConfigChanged(current, desired) THEN c
    ELSE IF <<"update", "Deployment">> \in fail
         THEN Err(LogOp(c, <<"update", "Deployment">>, "error"))
    ELSE [LogOp(c, <<"update", "Deployment">>, "ok") EXCEPT
             !.deploy[c.name] = [current EXCEPT !.args = desired.args, !.image = desired.image]]

createExternalDNSDeployment(c, desired, fail) ==
    IF CreateSite("Deployment") \in fail THEN Err(LogOp(c, CreateSite("Deployment"), "error"))
    ELSE [LogOp(c, CreateSite("Deployment"), "ok") EXCEPT !.deploy[c.name] = desired]

ensureExternalDNSDeployment(c, infra, fail) ==
    IF desiredPanics(c.mem)
    THEN [c EXCEPT !.panic = TRUE, !.deployEdns = c.mem, !.deployStep = TRUE]
    ELSE LET desired == desiredExternalDNSDeployment(c.mem, c.name, ExternalDNSImage, infra)
             d == [c EXCEPT !.deployEdns = c.mem, !.deployStep = TRUE]
         IN IF GetSite("Deployment") \in fail THEN Err(LogOp(d, GetSite("Deployment"), "error"))
            ELSE IF ~d.deploy[d.name].exists
                 THEN createExternalDNSDeployment(LogOp(d, GetSite("Deployment"), "notfound"),
                                                  desired, fail)
            ELSE updateExternalDNSDeployment(LogOp(d, GetSite("Deployment"), "ok"),
                                             d.deploy[d.name], desired, fail)

ensureExternalDNS(c, infra, fail) == ensureExternalDNSDeployment(c, infra, fail)

ensureExternalDNSDeploymentDeleted(c, fail) ==
    IF <<"delete", "Deployment">> \in fail
    THEN Err(LogOp(c, <<"delete", "Deployment">>, "error"))
    ELSE IF ~c.deploy[c.name].exists THEN LogOp(c, <<"delete", "Deployment">>, "notfound")
    ELSE [LogOp(c, <<"delete", "Deployment">>, "ok") EXCEPT !.deploy[c.name] = NoDeployment]

\* Mutant: the finalizer is removed whatever the Deployment delete returned.
ensureExternalDNSDeleted_unordered(c, fail) ==
    LET d == ensureExternalDNSDeploymentDeleted(c, fail)
        f == removeExternalDNSFinalizer([d EXCEPT !.err = FALSE], fail)
    IN [f EXCEPT !.err = d.err \/ f.err]

ensureExternalDNSDeleted(c, fail) ==
    Then(ensureExternalDNSDeploymentDeleted(c, fail), LAMBDA d :
    IF d.err THEN d ELSE removeExternalDNSFinalizer(d, fail))

\* ------------------------------------------------------------------ Reconcile
\* The part of Reconcile that runs once edns and both configs were read.
reconcileExternalDNS(c, dnsCfg, infra, fail) ==
    Then(ensureExternalDNSNamespace(c, fail), LAMBDA ns :
    IF ns.err THEN AddErr(ns, "namespace") ELSE
    Then(enforceEffectiveSourceType(ns, fail), LAMBDA st :
    IF st.err THEN AddErr(st, "sourceType") ELSE
    Then(enforceEffectiveBaseDomain(st, dnsCfg, fail), LAMBDA bd :
    IF bd.err THEN AddErr(bd, "baseDomain") ELSE
    IF ~IsStatusBaseDomainSet(bd.mem) THEN bd ELSE
    Then(enforceEffectiveProvider(bd, infra, fail), LAMBDA pr :
    IF pr.err THEN AddErr(pr, "provider") ELSE
    Then(enforceEffectiveZoneFilter(pr, dnsCfg, fail), LAMBDA zf :
    IF zf.err THEN AddErr(zf, "zoneFilter") ELSE
    IF zf.mem.deleting
    THEN Then(ensureExternalDNSDeleted(zf, fail), LAMBDA del :
         IF del.err THEN AddErr(del, "deletion") ELSE del)
    ELSE
    Then(enforceExternalDNSFinalizer(zf, fail), LAMBDA fin :
    IF fin.err THEN AddErr(fin, "finalizer") ELSE
    Then(ensureExternalDNS(fin, infra, fail), LAMBDA ens :
    IF ens.err THEN AddErr(ens, "ensure") ELSE ens)))))))

\* The pass for request `name` in the current state; the result is the
\* context at the return (or at the panic).
\* Mutant: a request whose ExternalDNS was not read still reads the configs.
ReconcilePass_noSkip(name, fail) ==
    LET getErr == GetSite("ExternalDNS") \in fail
        found == ~getErr /\ edns[name].exists
        c0 == [name |-> name, edns |-> edns, deploy |-> deploy, scaffold |-> scaffold,
               mem |-> IF found THEN edns[name] ELSE NoEDNS, found |-> found,
               stale |-> FALSE, err |-> FALSE,
               ops |-> <<(<<GetSite("ExternalDNS"),
                            IF getErr THEN "error" ELSE IF found THEN "ok" ELSE "notfound">>)>>,
               errs |-> IF getErr THEN <<"get">> ELSE <<>>,
               panic |-> FALSE, deployStep |-> FALSE, deployEdns |-> NoEDNS]
        dnsErr == GetSite("DNS") \in fail
        infraErr == GetSite("Infrastructure") \in fail
        c1 == LET l == LogOp(c0, GetSite("DNS"), IF dnsErr THEN "error" ELSE "ok")
              IN IF dnsErr THEN AddErr(l, "dnsConfig") ELSE l
        c2 == LET l == LogOp(c1, GetSite("Infrastructure"), IF infraErr THEN "error" ELSE "ok")
              IN IF infraErr THEN AddErr(l, "infraConfig") ELSE l
    IN IF ~found THEN c2
       ELSE IF dnsErr \/ infraErr THEN c2
       ELSE Then(c2, LAMBDA c : reconcileExternalDNS(c, dnsConfig, infraConfig, fail))

ReconcilePass(name, fail) ==
    LET getErr == GetSite("ExternalDNS") \in fail
        found == ~getErr /\ edns[name].exists
        c0 == [name |-> name, edns |-> edns, deploy |-> deploy, scaffold |-> scaffold,
               mem |-> IF found THEN edns[name] ELSE NoEDNS, found |-> found,
               stale |-> FALSE, err |-> FALSE,
               ops |-> <<(<<GetSite("ExternalDNS"),
                            IF getErr THEN "error" ELSE IF found THEN "ok" ELSE "notfound">>)>>,
               errs |-> IF getErr THEN <<"get">> ELSE <<>>,
               panic |-> FALSE, deployStep |-> FALSE, deployEdns |-> NoEDNS]
        dnsErr == GetSite("DNS") \in fail
        infraErr == GetSite("Infrastructure") \in fail
        c1 == LET l == LogOp(c0, GetSite("DNS"), IF dnsErr THEN "error" ELSE "ok")
              IN IF dnsErr THEN AddErr(l, "dnsConfig") ELSE l
        c2 == LET l == LogOp(c1, GetSite("Infrastructure"), IF infraErr THEN "error" ELSE "ok")
              IN IF infraErr THEN AddErr(l, "infraConfig") ELSE l
    IN IF ~found THEN c0
       ELSE IF dnsErr \/ infraErr THEN c2
       ELSE Then(c2, LAMBDA c : reconcileExternalDNS(c, dnsConfig, infraConfig, fail))

\* ---------------------------------------------------------------- the state
ClusterDomains == {"c1", "c2"}
Platforms == {AWSPlatformType, AzurePlatformType, GCPPlatformType}
PrivateZoneID == "zone-private"

ExternalDNSSpec(bd, srcs, zt, pt, pargs, zf) ==
    [baseDomain |-> bd, sources |-> srcs, zoneType |-> zt, providerType |-> pt,
     providerArgs |-> pargs, zoneFilter |-> zf]

\* The specs users (and the operator's defaults) submit.
SpecTemplates ==
    { ExternalDNSSpec("", <<>>, Nil, Nil, <<>>, <<>>),
      ExternalDNSSpec("", <<ServiceType>>, PublicZoneType, Nil, <<>>, <<"zone-public">>),
      ExternalDNSSpec("", <<ServiceType>>, PrivateZoneType, Nil, <<>>, <<"">>),
      ExternalDNSSpec("u1", <<ServiceType, "ingress">>, PrivateZoneType, AzureProvider, <<"--dry-run">>, <<>>) }

SpecOf(e) == ExternalDNSSpec(e.baseDomain, e.sources, e.zoneType, e.providerType, e.providerArgs, e.zoneFilter)

WithSpec(e, t) ==
    [e EXCEPT !.baseDomain = t.baseDomain, !.sources = t.sources, !.zoneType = t.zoneType,
              !.providerType = t.providerType, !.providerArgs = t.providerArgs,
              !.zoneFilter = t.zoneFilter]

\* The calls of a pass that write: everything but get and list.
IsWrite(call) == call[1][1] \notin {"get", "list"}
Writes(ops) == SelectSeq(ops, IsWrite)
ConfigReads(ops) == Len(SelectSeq(ops, LAMBDA call : call[1] \in ConfigSites))
\* Some call of the pass returned an error; the config reads that did.
CallFailed(ops) == \E i \in DOMAIN ops : ops[i][2] \in {"error", "conflict"}
ConfigFailed(ops) == {ops[i][1] : i \in {k \in DOMAIN ops : ops[k][1] \in ConfigSites /\ ops[k][2] = "error"}}

\* `last` records the pass that has just run: the request, what the get of
\* the ExternalDNS returned ("ok", "notfound" or "error"), the edns it read,
\* the writes it issued in order, whether a call failed and which config
\* reads did, the errors it aggregated, and the edns the
\* Deployment was computed from.  A step of the environment clears it.
NoPass ==
    [valid |-> FALSE, req |-> "", get |-> "", found |-> FALSE, read |-> NoEDNS,
     writes |-> <<>>, configReads |-> 0, failed |-> FALSE, configFailed |-> {},
     errs |-> <<>>, panic |-> FALSE,
     deployStep |-> FALSE, deployEdns |-> NoEDNS]

Init ==
    /\ \E e \in {NoEDNS} \cup {WithSpec([NoEDNS EXCEPT !.exists = TRUE], t) : t \in SpecTemplates} :
          edns = [n \in Names |-> IF n = "a" THEN e ELSE NoEDNS]
    /\ deploy = [n \in Names |-> NoDeployment]
    /\ scaffold = {}
    /\ dnsConfig \in [baseDomain : {"c1"}, privateZone : {PrivateZoneID}]
    /\ infraConfig \in [platform : Platforms, infrastructureName : {InfrastructureName}]
    /\ budget = 0
    /\ last = NoPass
    /\ AuxIdle

\* ------------------------------------------------------------------ actions
\* A failure injected at a call the pass never makes changes nothing, and a
\* pass with a failing call makes a prefix of the calls of the pass without:
\* the failures worth drawing are those of the calls of the latter.
FailChoicesFor(name) ==
    LET ops == ReconcilePass(name, {}).ops
        made == {ops[i][1] : i \in DOMAIN ops}
    IN {f \in FailChoices : f \subseteq made}

\* One pass of the controller for the request `name`.  A transient API
\* failure is an event of the environment and counts against its budget.
ReconcileOutcome(name, fail) ==
    /\ fail # {} => budget < MaxEnvSteps
    /\ \E r \in {ReconcilePass(name, fail)} :
       /\ budget' = IF fail # {} THEN budget + 1 ELSE budget
       /\ edns' = r.edns
       /\ deploy' = r.deploy
       /\ scaffold' = r.scaffold
       /\ last' = [valid |-> TRUE, req |-> name, get |-> r.ops[1][2], found |-> r.found,
                   read |-> IF r.found THEN edns[name] ELSE NoEDNS,
                   writes |-> Writes(r.ops), configReads |-> ConfigReads(r.ops),
                   failed |-> CallFailed(r.ops), configFailed |-> ConfigFailed(r.ops),
                   errs |-> r.errs, panic |-> r.panic,
                   deployStep |-> r.deployStep, deployEdns |-> r.deployEdns]
       /\ UNCHANGED <<dnsConfig, infraConfig>>
       /\ UNCHANGED auxVars

Reconcile(name) ==
    \E fail \in (IF budget < MaxEnvSteps THEN FailChoicesFor(name) ELSE {{}}) :
        ReconcileOutcome(name, fail)

\* Everything below is the environment: users and the cluster.
EnvStep ==
    /\ budget < MaxEnvSteps
    /\ budget' = budget + 1
    /\ last' = NoPass
    /\ UNCHANGED auxVars

\* Names are handed out in order: "b" is the second resource.
UserCreate(name, t) ==
    /\ ~edns[name].exists
    /\ name = "b" => edns["a"].exists
    /\ EnvStep
    /\ edns' = [edns EXCEPT ![name] = WithSpec([NoEDNS EXCEPT !.exists = TRUE], t)]
    /\ UNCHANGED <<deploy, scaffold, dnsConfig, infraConfig>>

UserUpdateSpec(name, t) ==
    /\ edns[name].exists
    /\ SpecOf(edns[name]) # t
    /\ EnvStep
    /\ edns' = [edns EXCEPT ![name] = WithSpec(@, t)]
    /\ UNCHANGED <<deploy, scaffold, dnsConfig, infraConfig>>

UserDelete(name) ==
    /\ edns[name].exists
    /\ ~edns[name].deleting
    /\ EnvStep
    /\ edns' = [edns EXCEPT ![name] = IF @.finalizer THEN [@ EXCEPT !.deleting = TRUE]
                                      ELSE NoEDNS]
    /\ UNCHANGED <<deploy, scaffold, dnsConfig, infraConfig>>

ClusterDNSChange(d) ==
    /\ dnsConfig.baseDomain # d
    /\ EnvStep
    /\ dnsConfig' = [dnsConfig EXCEPT !.baseDomain = d]
    /\ UNCHANGED <<edns, deploy, scaffold, infraConfig>>

InfraChange(p) ==
    /\ infraConfig.platform # p
    /\ EnvStep
    /\ infraConfig' = [infraConfig EXCEPT !.platform = p]
    /\ UNCHANGED <<edns, deploy, scaffold, dnsConfig>>

DeploymentEdited(name) ==
    /\ deploy[name].exists
    /\ deploy[name].args # <<>>
    /\ EnvStep
    /\ deploy' = [deploy EXCEPT ![name].args = <<>>]
    /\ UNCHANGED <<edns, scaffold, dnsConfig, infraConfig>>

DeploymentDeleted(name) ==
    /\ deploy[name].exists
    /\ EnvStep
    /\ deploy' = [deploy EXCEPT ![name] = NoDeployment]
    /\ UNCHANGED <<edns, scaffold, dnsConfig, infraConfig>>

Next ==
    \/ \E name \in Names : Reconcile(name)
    \/ \E name \in Names, t \in SpecTemplates : UserCreate(name, t)
    \/ \E name \in Names, t \in SpecTemplates : UserUpdateSpec(name, t)
    \/ \E name \in Names : UserDelete(name)
    \/ \E d \in ClusterDomains : ClusterDNSChange(d)
    \/ \E p \in Platforms : InfraChange(p)
    \/ \E name \in Names : DeploymentEdited(name)
    \/ \E name \in Names : DeploymentDeleted(name)

Spec == Init /\ [][Next]_vars

\* ------------------------------------------------------------------ claims
Published(e) == e.exists /\ e.statusBaseDomain # ""
ReconcileStep == last'.valid
StatusProviderSite == <<"status", "providerType">>
HasWrite(site) == \E i \in DOMAIN last.writes : last.writes[i][1] = site
HasWriteResult(site, res) == \E i \in DOMAIN last.writes : last.writes[i] = <<site, res>>

\* C1: once status.baseDomain of an ExternalDNS is non-empty, no step changes
\* or clears it for as long as the resource exists, whatever happens to
\* spec.baseDomain or to the cluster DNS config (so it is set at most once).
C1_StatusBaseDomainImmutable ==
    [][\A n \in Names :
          (Published(edns[n]) /\ edns'[n].exists)
              => edns'[n].statusBaseDomain = edns[n].statusBaseDomain]_vars

\* A pass has run, without error, on a resource whose published base domain
\* is no longer the one its spec and the cluster DNS config yield.
C1_Witness ==
    /\ last.valid /\ last.errs = <<>> /\ Published(last.read)
    /\ Published(edns[last.req])
    /\ edns[last.req].statusBaseDomain
         # (IF edns[last.req].baseDomain # "" THEN edns[last.req].baseDomain
            ELSE dnsConfig.baseDomain)

\* C2: once status.providerType of an ExternalDNS is set, no step changes it
\* for as long as the resource exists, and a pass that reads a resource with
\* the provider set issues no status update for the provider.
C2_StatusProviderImmutable ==
    /\ [][\A n \in Names :
            (edns[n].exists /\ edns[n].statusProviderType # Nil /\ edns'[n].exists)
                => edns'[n].statusProviderType = edns[n].statusProviderType]_vars
    /\ []((last.valid /\ last.read.statusProviderType # Nil) => ~HasWrite(StatusProviderSite))

\* A pass went through the provider step, without error, on a resource whose
\* published provider differs from what its spec and the platform yield now.
C2_Witness ==
    /\ last.valid /\ last.errs = <<>> /\ Published(last.read)
    /\ last.read.statusProviderType # Nil
    /\ edns[last.req].exists
    /\ edns[last.req].statusProviderType
         # (IF edns[last.req].providerType # Nil THEN edns[last.req].providerType
            ELSE IF infraConfig.platform = AWSPlatformType THEN AWSProvider
            ELSE IF infraConfig.platform = AzurePlatformType THEN AzureProvider
            ELSE GoogleProvider)

\* C3: no two distinct ExternalDNS resources have the same non-empty
\* status.baseDomain.
C3_BaseDomainUnique ==
    \A n, m \in Names :
        (n # m /\ Published(edns[n]) /\ Published(edns[m]))
            => edns[n].statusBaseDomain # edns[m].statusBaseDomain

\* C4: when a pass publishes status.baseDomain, the value is spec.baseDomain
\* if that is non-empty and the cluster DNS config's base domain otherwise.
C4_EffectiveBaseDomainPublished ==
    [][\A n \in Names :
          (edns[n].exists /\ ~Published(edns[n]) /\ Published(edns'[n]))
              => edns'[n].statusBaseDomain
                   = (IF edns[n].baseDomain # "" THEN edns[n].baseDomain
                      ELSE dnsConfig.baseDomain)]_vars

\* A pass has just published the cluster's base domain for a resource whose
\* spec.baseDomain is empty.
C4_Witness ==
    /\ last.valid /\ last.found /\ ~Published(last.read)
    /\ last.read.baseDomain = ""
    /\ HasWriteResult(<<"status", "baseDomain">>, "ok")
    /\ edns[last.req].statusBaseDomain = dnsConfig.baseDomain

AddFinalizerSite == <<"update", "addFinalizer">>
RemoveFinalizerSite == <<"update", "removeFinalizer">>
DeleteDeploymentSite == <<"delete", "Deployment">>
DeploymentWriteSites == {<<"create", "Deployment">>, <<"update", "Deployment">>}

\* C6: a pass creates or updates the Deployment only when the stored
\* ExternalDNS carries the finalizer, after every attempt of the pass to add
\* it has succeeded; a pass whose attempt to add the finalizer failed issues
\* no Deployment create or update.
C6_FinalizerBeforeDeployment ==
    last.valid =>
        \A i \in DOMAIN last.writes :
            last.writes[i][1] \in DeploymentWriteSites =>
                /\ edns[last.req].exists /\ edns[last.req].finalizer
                /\ \A j \in DOMAIN last.writes :
                      last.writes[j][1] = AddFinalizerSite
                          => (j < i /\ last.writes[j][2] = "ok")

\* A pass has added the finalizer and then created the Deployment.
C6_Witness ==
    /\ last.valid
    /\ ~last.read.finalizer
    /\ HasWriteResult(AddFinalizerSite, "ok")
    /\ HasWriteResult(<<"create", "Deployment">>, "ok")

\* C7: a pass attempts to remove the finalizer only from a resource marked
\* for deletion and only after its delete of the Deployment returned success
\* or NotFound; when that delete fails otherwise, the pass returns an error,
\* attempts no finalizer removal and leaves the finalizer in place.
C7_DeletionOrdering ==
    last.valid =>
        /\ \A i \in DOMAIN last.writes :
              last.writes[i][1] = RemoveFinalizerSite =>
                  /\ last.read.deleting
                  /\ \E j \in DOMAIN last.writes :
                        /\ j < i
                        /\ last.writes[j][1] = DeleteDeploymentSite
                        /\ last.writes[j][2] \in {"ok", "notfound"}
                  /\ ~deploy[last.req].exists
        /\ HasWriteResult(DeleteDeploymentSite, "error") =>
              /\ ~HasWrite(RemoveFinalizerSite)
              /\ last.errs # <<>>
              /\ last.read.finalizer
                    => (edns[last.req].exists /\ edns[last.req].finalizer)

\* A pass has deleted an existing Deployment and then removed the finalizer,
\* which let the resource go.
C7_Witness ==
    /\ last.valid /\ last.read.deleting
    /\ HasWriteResult(DeleteDeploymentSite, "ok")
    /\ HasWriteResult(RemoveFinalizerSite, "ok")
    /\ ~edns[last.req].exists

\* C8: after a pass that reached the Deployment step and returned no error,
\* the pass that follows on the unchanged state issues no write and returns
\* no error.
C8_ConvergedIsFixedPoint ==
    (last.valid /\ last.deployStep /\ ~last.panic /\ last.errs = <<>>) =>
        LET r == ReconcilePass(last.req, {})
        IN Writes(r.ops) = <<>> /\ r.errs = <<>> /\ ~r.panic

SourcesSite == <<"update", "sources">>
PastScaffolding ==
    /\ last.valid /\ last.found /\ last.configReads = 2
    /\ \A i \in DOMAIN last.errs : last.errs[i] \notin {"dnsConfig", "infraConfig", "namespace"}

\* C9 as claimed: after a pass that got past the scaffolding step for an
\* ExternalDNS with no spec.sources, the stored spec.sources is [service];
\* and no pass modifies a spec.sources that is set.
C9_SourcesDefaultedAfterScaffolding ==
    /\ []((PastScaffolding /\ last.read.sources = <<>>)
            => edns[last.req].sources = <<ServiceType>>)
    /\ [][\A n \in Names :
            (ReconcileStep /\ edns[n].exists /\ edns[n].sources # <<>> /\ edns'[n].exists)
                => edns'[n].sources = edns[n].sources]_vars

\* C9 amended: after a pass that got past the scaffolding step for an
\* ExternalDNS with no spec.sources, the stored spec.sources is [service] if
\* the update of the ExternalDNS succeeded; if it failed the pass returns an
\* error and spec.sources is still empty; and no pass modifies a
\* spec.sources that is set.
C9_SourcesDefaulted ==
    /\ []((PastScaffolding /\ last.read.sources = <<>>) =>
            /\ HasWrite(SourcesSite)
            /\ HasWriteResult(SourcesSite, "ok") => edns[last.req].sources = <<ServiceType>>
            /\ ~HasWriteResult(SourcesSite, "ok")
                  => (last.errs # <<>> /\ edns[last.req].sources = <<>>))
    /\ [][\A n \in Names :
            (ReconcileStep /\ edns[n].exists /\ edns[n].sources # <<>> /\ edns'[n].exists)
                => edns'[n].sources = edns[n].sources]_vars

\* A pass has defaulted the empty spec.sources of a resource.
C9_Witness ==
    /\ PastScaffolding /\ last.read.sources = <<>>
    /\ HasWriteResult(SourcesSite, "ok")
    /\ edns[last.req].sources = <<ServiceType>>

\* C10: a pass that computes the Deployment of an ExternalDNS it read with
\* no spec.zoneType computes it from a private-zone ExternalDNS.
C10_ZoneTypeDefaultsToPrivate ==
    (last.valid /\ last.deployStep /\ last.read.zoneType = Nil)
        => last.deployEdns.zoneType = PrivateZoneType

\* Passes keep being run for every request, and a pass whose calls all
\* succeed is eventually among them.
LiveSpec == Spec /\ \A name \in Names : WF_vars(ReconcileOutcome(name, {}))

ConflictFree(n) ==
    LET domain == IF Published(edns[n]) THEN edns[n].statusBaseDomain
                  ELSE IF edns[n].baseDomain # "" THEN edns[n].baseDomain
                  ELSE dnsConfig.baseDomain
    IN \A m \in Names \ {n} :
          ~(Published(edns[m]) /\ edns[m].statusBaseDomain = domain)

Eligible(n) == edns[n].exists /\ ~edns[n].deleting /\ ConflictFree(n)

Converged(n) ==
    /\ Published(edns[n])
    /\ edns[n].statusProviderType # Nil
    /\ edns[n].finalizer
    /\ deploy[n].exists
    /\ ~desiredPanics(edns[n])
    /\ LET desired == desiredExternalDNSDeployment(edns[n], n, ExternalDNSImage, infraConfig)
       IN deploy[n].args = desired.args /\ deploy[n].image = desired.image

\* C5: an ExternalDNS that is not marked for deletion and conflicts with no
\* other eventually has its base domain and provider published, the
\* finalizer, and its Deployment with the desired args and image (or stops
\* being such a resource).
C5_Convergence ==
    \A n \in Names : Eligible(n) ~> (Converged(n) \/ ~Eligible(n))

\* The same, leaving out the resources for which the Deployment cannot be
\* computed: no spec.zoneType with the aws provider.
ConvergenceWhereComputable ==
    \A n \in Names :
        Eligible(n) ~> (Converged(n) \/ ~Eligible(n)
                        \/ (edns[n].zoneType = Nil /\ edns[n].statusProviderType = AWSProvider))

\* C11: when a pass publishes status.providerType, the value is
\* spec.provider.type if that is set, and otherwise aws for platform AWS,
\* azure for platform Azure and google for platform GCP.
C11_EffectiveProviderPublished ==
    [][\A n \in Names :
          (edns[n].exists /\ edns[n].statusProviderType = Nil
             /\ edns'[n].exists /\ edns'[n].statusProviderType # Nil)
              => edns'[n].statusProviderType
                   = (IF edns[n].providerType # Nil THEN edns[n].providerType
                      ELSE IF infraConfig.platform = AWSPlatformType THEN AWSProvider
                      ELSE IF infraConfig.platform = AzurePlatformType THEN AzureProvider
                      ELSE IF infraConfig.platform = GCPPlatformType THEN GoogleProvider
                      ELSE "none")]_vars

\* A pass has just published the azure provider for a resource with no
\* spec.provider.type on the Azure platform.
C11_Witness ==
    /\ last.valid /\ last.found
    /\ last.read.providerType = Nil /\ last.read.statusProviderType = Nil
    /\ HasWriteResult(StatusProviderSite, "ok")
    /\ infraConfig.platform = AzurePlatformType
    /\ edns[last.req].statusProviderType = AzureProvider

ZoneFilterSite == <<"update", "zoneFilter">>
\* The pass got to enforceEffectiveZoneFilter: the configs were read, the
\* base domain was published when the pass read the resource, and no step
\* before the zone filter failed.
ReachedZoneFilter ==
    /\ last.valid /\ last.found /\ last.configReads = 2
    /\ Published(last.read)
    /\ \A i \in DOMAIN last.errs :
          last.errs[i] \notin {"dnsConfig", "infraConfig", "namespace", "sourceType",
                               "baseDomain", "provider"}

\* C12 as claimed: after a pass that reached the zone-filter step for an
\* ExternalDNS with no spec.provider.zoneFilter, the stored zoneFilter is
\* [dns.config privateZone]; and no pass modifies a zoneFilter that is set.
C12_ZoneFilterDefaultedWhenReached ==
    /\ []((ReachedZoneFilter /\ last.read.zoneFilter = <<>>)
            => edns[last.req].zoneFilter = <<dnsConfig.privateZone>>)
    /\ [][\A n \in Names :
            (ReconcileStep /\ edns[n].exists /\ edns[n].zoneFilter # <<>> /\ edns'[n].exists)
                => edns'[n].zoneFilter = edns[n].zoneFilter]_vars

\* C12 amended: a pass that reached the zone-filter step for an ExternalDNS
\* with no spec.provider.zoneFilter attempts the update; if the update
\* succeeded the stored zoneFilter is [dns.config privateZone]; if it failed
\* (an API error, or a conflict because an earlier step of the pass wrote
\* the resource) the pass returns an error and the zoneFilter is still
\* empty; and no pass modifies a zoneFilter that is set.
C12_ZoneFilterDefaulted ==
    /\ []((ReachedZoneFilter /\ last.read.zoneFilter = <<>>) =>
            /\ HasWrite(ZoneFilterSite)
            /\ HasWriteResult(ZoneFilterSite, "ok")
                  => edns[last.req].zoneFilter = <<dnsConfig.privateZone>>
            /\ ~HasWriteResult(ZoneFilterSite, "ok")
                  => (last.errs # <<>> /\ edns[last.req].zoneFilter = <<>>))
    /\ [][\A n \in Names :
            (ReconcileStep /\ edns[n].exists /\ edns[n].zoneFilter # <<>> /\ edns'[n].exists)
                => edns'[n].zoneFilter = edns[n].zoneFilter]_vars

\* A pass has defaulted the empty zone filter of a resource to the private
\* zone of the cluster DNS config.
C12_Witness ==
    /\ ReachedZoneFilter /\ last.read.zoneFilter = <<>>
    /\ HasWriteResult(ZoneFilterSite, "ok")
    /\ edns[last.req].zoneFilter = <<dnsConfig.privateZone>>

\* C13: a pass for a request whose ExternalDNS does not exist (the get
\* reports NotFound) returns no error, reads neither cluster config, issues
\* no write, and leaves every resource as it was.
C13_NotFoundSkipped ==
    /\ []((last.valid /\ last.get = "notfound")
            => (last.errs = <<>> /\ ~last.panic /\ last.configReads = 0
                /\ last.writes = <<>>))
    /\ [][(ReconcileStep /\ last'.get = "notfound")
            => UNCHANGED <<edns, deploy, scaffold, dnsConfig, infraConfig>>]_vars

\* A pass has run for the request of a resource that does not exist, after
\* the scaffolding was created for another resource, which exists.
C13_Witness ==
    /\ last.valid /\ last.get = "notfound" /\ ~edns[last.req].exists
    /\ scaffold = ScaffoldKinds
    /\ \E n \in Names : edns[n].exists

\* C14: a pass that returns returns an error if and only if one of its
\* calls failed; a pass that read the ExternalDNS attempts both config reads
\* and reports the failure of each, in order; and a pass with a failed
\* config read issues no write and changes no resource.
C14_ErrorAggregation ==
    /\ []((last.valid /\ ~last.panic) => (last.errs # <<>> <=> last.failed))
    /\ []((last.valid /\ last.found) =>
            /\ last.configReads = 2
            /\ SelectSeq(last.errs, LAMBDA l : l \in {"dnsConfig", "infraConfig"})
                  = (IF GetSite("DNS") \in last.configFailed THEN <<"dnsConfig">> ELSE <<>>)
                    \o (IF GetSite("Infrastructure") \in last.configFailed
                        THEN <<"infraConfig">> ELSE <<>>)
            /\ last.configFailed # {} => last.writes = <<>>)
    /\ [][(ReconcileStep /\ last'.configFailed # {})
            => UNCHANGED <<edns, deploy, scaffold>>]_vars

\* A pass has read an ExternalDNS that needs work, both config reads failed,
\* and it returned both errors.
C14_Witness ==
    /\ last.valid /\ last.found /\ ~last.read.finalizer
    /\ last.configFailed = ConfigSites
    /\ last.errs = <<"dnsConfig", "infraConfig">>

\* ------------------------------------------------- scaffolding under deletion
\* The controller with an environment that deletes scaffolding objects: any
\* subset of the four may be present when a pass starts.  The ServiceAccount
\* and the Deployments live in the Namespace and go with it.
ScaffoldStates ==
    {s \in SUBSET ScaffoldKinds : "ServiceAccount" \in s => "Namespace" \in s}

ScaffoldInit ==
    /\ \E t \in SpecTemplates :
          edns = [n \in Names |-> IF n = "a" THEN WithSpec([NoEDNS EXCEPT !.exists = TRUE], t)
                                  ELSE NoEDNS]
    /\ deploy = [n \in Names |-> NoDeployment]
    /\ scaffold \in ScaffoldStates
    /\ dnsConfig \in [baseDomain : {"c1"}, privateZone : {PrivateZoneID}]
    /\ infraConfig \in [platform : Platforms, infrastructureName : {InfrastructureName}]
    /\ budget = 0
    /\ last = NoPass
    /\ AuxIdle

ScaffoldDeleted(kind) ==
    /\ kind \in scaffold
    /\ EnvStep
    /\ scaffold' = IF kind = "Namespace" THEN scaffold \ {"Namespace", "ServiceAccount"}
                   ELSE scaffold \ {kind}
    /\ deploy' = IF kind = "Namespace" THEN [n \in Names |-> NoDeployment] ELSE deploy
    /\ UNCHANGED <<edns, dnsConfig, infraConfig>>

ScaffoldNext ==
    \/ \E name \in Names : Reconcile(name)
    \/ \E kind \in ScaffoldKinds : ScaffoldDeleted(kind)

ScaffoldSpec == ScaffoldInit /\ [][ScaffoldNext]_vars

\* The scaffolding objects the pass created, from its writes.
ScaffoldCreated(writes) ==
    {k \in ScaffoldKinds : \E i \in DOMAIN writes : writes[i] = <<CreateSite(k), "ok">>}
ScaffoldWrites(writes) ==
    {i \in DOMAIN writes : writes[i][1][2] \in ScaffoldKinds}

\* C15: after a pass whose scaffolding step returned without error all four
\* scaffolding objects exist; a pass creates exactly the scaffolding objects
\* that were absent up to its first failure, issues no other write on a
\* scaffolding object and removes none, so a pass on a state where all four
\* exist issues no scaffolding write.
C15_Scaffolding ==
    /\ [](PastScaffolding => scaffold = ScaffoldKinds)
    /\ [][ReconcileStep =>
            /\ scaffold \subseteq scaffold'
            /\ scaffold' \ scaffold = ScaffoldCreated(last'.writes)
            /\ \A i \in ScaffoldWrites(last'.writes) :
                  /\ last'.writes[i][1][1] = "create"
                  /\ last'.writes[i][1][2] \notin scaffold
            /\ scaffold = ScaffoldKinds => ScaffoldWrites(last'.writes) = {}]_vars

\* A pass has got past the scaffolding step after creating the ClusterRole
\* alone, the other three objects being there already.
C15_Witness ==
    /\ PastScaffolding
    /\ ScaffoldCreated(last.writes) = {"ClusterRole"}
    /\ scaffold = ScaffoldKinds

\* ------------------------------------------------------------ the controller at rest
CtrlIdle ==
    /\ edns = [n \in Names |-> NoEDNS]
    /\ deploy = [n \in Names |-> NoDeployment]
    /\ scaffold = {}
    /\ dnsConfig = [baseDomain |-> "c1", privateZone |-> PrivateZoneID]
    /\ infraConfig = [platform |-> AWSPlatformType, infrastructureName |-> InfrastructureName]
    /\ budget = 0
    /\ last = NoPass

\* ------------------------------------------------------------------ the watch
\* Labels are a set of <<key, value>> pairs with distinct keys.
LabelKeys == {OwningExternalDNSLabel, "app"}
LabelValues == Names \cup {"x"}
LabelMaps ==
    {ls \in SUBSET (LabelKeys \X LabelValues) :
        \A p, q \in ls : p[1] = q[1] => p = q}
HasLabel(labels, key) == \E p \in labels : p[1] = key
LabelValue(labels, key) == (CHOOSE p \in labels : p[1] = key)[2]

\* The labels desiredExternalDNSDeployment gives the Deployment of `name`.
DeploymentLabels(name) == {<<OwningExternalDNSLabel, name>>}

\* Mutant: the request is for the namespace of the Deployment.
ToRequests_operandNamespace(labels) ==
    IF HasLabel(labels, OwningExternalDNSLabel)
    THEN <<[namespace |-> OperandNamespace, name |-> LabelValue(labels, OwningExternalDNSLabel)]>>
    ELSE <<>>

\* The map function of the Deployment watch.
ToRequests(labels) ==
    IF HasLabel(labels, OwningExternalDNSLabel)
    THEN <<[namespace |-> OperatorNamespace, name |-> LabelValue(labels, OwningExternalDNSLabel)]>>
    ELSE <<>>

\* The work queue holds a request once however often it is added.
RECURSIVE Enqueue(_, _)
Enqueue(q, reqs) ==
    IF reqs = <<>> THEN q
    ELSE Enqueue(IF \E i \in DOMAIN q : q[i] = Head(reqs) THEN q ELSE Append(q, Head(reqs)),
                 Tail(reqs))

WatchInit == CtrlIdle /\ AuxIdle

\* An event on a Deployment of the operand namespace carrying `labels`.
DeploymentEvent(labels) ==
    /\ event' = [valid |-> TRUE, labels |-> labels, requests |-> ToRequests(labels)]
    /\ queue' = Enqueue(queue, ToRequests(labels))
    /\ UNCHANGED <<ctrlVars, zoneVars, opVars>>

\* A worker takes the request at the head of the queue.
Dequeue ==
    /\ queue # <<>>
    /\ queue' = Tail(queue)
    /\ UNCHANGED <<event, ctrlVars, zoneVars, opVars>>

WatchNext ==
    \/ \E labels \in LabelMaps : DeploymentEvent(labels)
    \/ Dequeue

WatchSpec == WatchInit /\ [][WatchNext]_vars

\* C16: an event on a Deployment carrying the owning-externaldns label
\* enqueues exactly one request, for the operator's namespace and the name
\* that is the label's value; an event on a Deployment without the label
\* enqueues none.
C16_WatchMapping ==
    event.valid =>
        IF \E v \in LabelValues : <<OwningExternalDNSLabel, v>> \in event.labels
        THEN /\ Len(event.requests) = 1
             /\ event.requests[1].namespace = OperatorNamespace
             /\ <<OwningExternalDNSLabel, event.requests[1].name>> \in event.labels
        ELSE event.requests = <<>>

\* An event on the Deployment the operator made for "b" came in while the
\* request for "a" was waiting: the queue now holds both.
C16_Witness ==
    /\ event.valid /\ event.labels = DeploymentLabels("b")
    /\ queue = <<[namespace |-> OperatorNamespace, name |-> "a"],
                 [namespace |-> OperatorNamespace, name |-> "b"]>>

\* ------------------------------------------------------- getZoneIDFromTags
\* An ARN is "arn:partition:service:region:account:resource"; the model keeps
\* its prefix, the number of its colon-separated sections, and its resource
\* as the sequence of the elements "/" separates.
ZoneARN(id) == [prefix |-> "arn", sections |-> 6, resource |-> <<"hostedzone", id>>]
ARNs ==
    { ZoneARN("Z1"),
      [prefix |-> "arn", sections |-> 6, resource |-> <<"healthcheck", "H1">>],
      [prefix |-> "urn", sections |-> 3, resource |-> <<"hostedzone", "Z2">>] }

\* arn.Parse: the prefix and the six sections.
arnParse(a) == a.prefix = "arn" /\ a.sections = 6

\* The callback f on one page: only the first resource of the page is
\* looked at.  found: f set the id; inner: f set innerError; in both cases
\* f returns false and the paging stops.
zonePage(page) ==
    IF page = <<>> THEN [found |-> FALSE, inner |-> FALSE, id |-> ""]
    ELSE LET zone == page[1]
         IN IF ~arnParse(zone) THEN [found |-> FALSE, inner |-> TRUE, id |-> ""]
            ELSE IF Len(zone.resource) # 2 \/ zone.resource[1] # "hostedzone"
                 THEN [found |-> FALSE, inner |-> TRUE, id |-> ""]
            ELSE [found |-> TRUE, inner |-> FALSE, id |-> zone.resource[2]]

\* GetResourcesPages from page i on: the request of page failAt fails.
RECURSIVE GetResourcesPages(_, _, _)
GetResourcesPages(pages, i, failAt) ==
    IF i > Len(pages) THEN [id |-> "", inner |-> FALSE, outer |-> FALSE]
    ELSE IF i = failAt THEN [id |-> "", inner |-> FALSE, outer |-> TRUE]
    ELSE LET r == zonePage(pages[i])
         IN IF r.found \/ r.inner THEN [id |-> r.id, inner |-> r.inner, outer |-> FALSE]
            ELSE GetResourcesPages(pages, i + 1, failAt)

\* The call for a zone config that is not nil.
getZoneIDFromTags(pages, failAt) ==
    LET r == GetResourcesPages(pages, 1, failAt)
    IN [id |-> r.id, err |-> r.inner \/ r.outer]

\* The answers of the tagging API: at least one page, each with the
\* resources that passed the filters.
RECURSIVE SeqsUpTo(_, _)
SeqsUpTo(S, n) ==
    IF n = 0 THEN {<<>>}
    ELSE LET shorter == SeqsUpTo(S, n - 1)
         IN shorter \cup {Append(q, x) : q \in {t \in shorter : Len(t) = n - 1}, x \in S}
TagPages == SeqsUpTo(ARNs, MaxPerPage)
TagAnswers == SeqsUpTo(TagPages, MaxPages) \ {<<>>}

ZoneInit == CtrlIdle /\ AuxIdle

GetZoneID(pages, failAt) ==
    /\ zoneCall' = LET r == getZoneIDFromTags(pages, failAt)
                   IN [valid |-> TRUE, pages |-> pages, failAt |-> failAt,
                       id |-> r.id, err |-> r.err]
    /\ UNCHANGED <<ctrlVars, watchVars, opVars>>

\* One call per behaviour: the function keeps no state between calls.
ZoneNext ==
    /\ ~zoneCall.valid
    /\ \E pages \in TagAnswers : \E failAt \in 0..Len(pages) : GetZoneID(pages, failAt)

ZoneSpec == ZoneInit /\ [][ZoneNext]_vars

IsHostedZone(a) ==
    a.prefix = "arn" /\ a.sections = 6 /\ Len(a.resource) = 2 /\ a.resource[1] = "hostedzone"
\* The resources the call got to see: those of the pages before the failed
\* request, in order.
RECURSIVE Flatten(_)
Flatten(pages) == IF pages = <<>> THEN <<>> ELSE Head(pages) \o Flatten(Tail(pages))
SeenResources(call) ==
    Flatten(SubSeq(call.pages, 1,
                   IF call.failAt = 0 THEN Len(call.pages) ELSE call.failAt - 1))

\* C19: a call that finds no hosted zone on any page returns an error; a
\* call whose first resource, on whatever page, is a well-formed hosted
\* zone ARN returns the id of that zone and no error.
C19_ZoneNotFoundIsError ==
    zoneCall.valid =>
        /\ (\A i \in DOMAIN zoneCall.pages : \A j \in DOMAIN zoneCall.pages[i] :
                ~IsHostedZone(zoneCall.pages[i][j]))
              => zoneCall.err
        /\ (SeenResources(zoneCall) # <<>> /\ IsHostedZone(SeenResources(zoneCall)[1]))
              => (~zoneCall.err /\ zoneCall.id = SeenResources(zoneCall)[1].resource[2])

\* ------------------------------------------------------- the default ExternalDNSes
\* The API calls of a period; `fail` is the set of those that return an
\* error other than NotFound.
DefaultSites == {<<op, d>> : op \in {"get", "create"}, d \in DefaultNames}
\* What the tagging API answers in a period: the zone, nothing, or an error.
ZoneLookups ==
    { [pages |-> <<(<<ZoneARN("Z1")>>)>>, failAt |-> 0],
      [pages |-> <<(<<>>)>>, failAt |-> 0],
      [pages |-> <<(<<>>)>>, failAt |-> 1] }

\* The context of a period: c.ops logs its calls, c.errs the defaults whose
\* ensure returned an error (which Start logs).
OpErr(c, site, d) == [c EXCEPT !.ops = Append(@, <<site, "error">>), !.errs = @ \cup {d}]
OpLog(c, site, res) == [c EXCEPT !.ops = Append(@, <<site, res>>)]

\* o.dnsConfig.Spec.PrivateZone is handed to getZoneIDFromTags, which reads
\* zoneConfig.Tags: with no private zone in the dns config the call panics.
ensureDefaultPrivateExternalDNS(c, cfg, fail, lookup) ==
    LET d == DefaultExternalDNSPrivateZoneController IN
    IF cfg.privateZone = Nil THEN [c EXCEPT !.panic = TRUE]
    ELSE LET zr == getZoneIDFromTags(lookup.pages, lookup.failAt)
             t == OpLog(c, <<"tags", d>>, IF zr.err THEN "error" ELSE "ok")
             new == [exists |-> TRUE, sources |-> <<ServiceType>>,
                     zoneType |-> PrivateZoneType, zoneFilter |-> <<zr.id>>]
         IN IF <<"get", d>> \in fail THEN OpErr(t, <<"get", d>>, d)
            ELSE IF t.defaults[d].exists THEN OpLog(t, <<"get", d>>, "ok")
            ELSE LET g == OpLog(t, <<"get", d>>, "notfound")
                 IN IF <<"create", d>> \in fail THEN OpErr(g, <<"create", d>>, d)
                    ELSE [OpLog(g, <<"create", d>>, "ok") EXCEPT !.defaults[d] = new]

\* Mutant: the public default is written whether or not it exists.
ensureDefaultPublicExternalDNS_overwrite(c, cfg, fail) ==
    LET d == DefaultExternalDNSPublicZoneController
        new == [exists |-> TRUE, sources |-> <<ServiceType>>,
                zoneType |-> PublicZoneType, zoneFilter |-> <<cfg.publicZone>>]
    IN IF <<"get", d>> \in fail THEN OpErr(c, <<"get", d>>, d)
       ELSE LET g == OpLog(c, <<"get", d>>, IF c.defaults[d].exists THEN "ok" ELSE "notfound")
            IN IF <<"create", d>> \in fail THEN OpErr(g, <<"create", d>>, d)
               ELSE [OpLog(g, <<"create", d>>, "ok") EXCEPT !.defaults[d] = new]

ensureDefaultPublicExternalDNS(c, cfg, fail) ==
    LET d == DefaultExternalDNSPublicZoneController
        new == [exists |-> TRUE, sources |-> <<ServiceType>>,
                zoneType |-> PublicZoneType, zoneFilter |-> <<cfg.publicZone>>]
    IN IF <<"get", d>> \in fail THEN OpErr(c, <<"get", d>>, d)
       ELSE IF c.defaults[d].exists THEN OpLog(c, <<"get", d>>, "ok")
       ELSE LET g == OpLog(c, <<"get", d>>, "notfound")
            IN IF <<"create", d>> \in fail THEN OpErr(g, <<"create", d>>, d)
               ELSE [OpLog(g, <<"create", d>>, "ok") EXCEPT !.defaults[d] = new]

\* The function Start runs every minute: the private default, then the
\* public one whatever the first returned.  A panic ends the function.
ensureDefaults(cfg, fail, lookup) ==
    Then(ensureDefaultPrivateExternalDNS(
             [defaults |-> defaults, ops |-> <<>>, errs |-> {}, panic |-> FALSE],
             cfg, fail, lookup), LAMBDA priv :
    IF priv.panic THEN priv ELSE ensureDefaultPublicExternalDNS(priv, cfg, fail))

OperatorInit ==
    /\ CtrlIdle /\ WatchIdle /\ ZoneIdle
    /\ defaults = [d \in DefaultNames |-> NoDefault]
    /\ opConfig \in [privateZone : {Nil, "tagged"}, publicZone : {"zone-public"}]
    /\ running = "running"
    /\ period = NoPeriod

\* One period of the loop of Start.  wait.Until hands a panic of the function
\* to HandleCrash, which ends the process or only logs, as it was built.
EnsureDefaultsOutcome(fail, lookup) ==
    /\ running = "running"
    /\ \E r \in {ensureDefaults(opConfig, fail, lookup)} :
          /\ defaults' = r.defaults
          /\ running' \in IF r.panic THEN {"crashed", "running"} ELSE {running}
          /\ period' = [valid |-> TRUE, before |-> defaults, ops |-> r.ops,
                        errs |-> r.errs, panic |-> r.panic]
    /\ UNCHANGED <<opConfig, ctrlVars, watchVars, zoneVars>>

EnsureDefaults ==
    \E fail \in SUBSET DefaultSites, lookup \in ZoneLookups : EnsureDefaultsOutcome(fail, lookup)

\* The kubelet starts the operator again after a crash.
Restart ==
    /\ running = "crashed"
    /\ running' = "running"
    /\ period' = NoPeriod
    /\ UNCHANGED <<defaults, opConfig, ctrlVars, watchVars, zoneVars>>

\* The stop channel is closed.
Stop ==
    /\ running # "stopped"
    /\ running' = "stopped"
    /\ period' = NoPeriod
    /\ UNCHANGED <<defaults, opConfig, ctrlVars, watchVars, zoneVars>>

UserDeleteDefault(d) ==
    /\ defaults[d].exists
    /\ defaults' = [defaults EXCEPT ![d] = NoDefault]
    /\ period' = NoPeriod
    /\ UNCHANGED <<opConfig, running, ctrlVars, watchVars, zoneVars>>

UserEditDefault(d) ==
    /\ defaults[d].exists
    /\ defaults[d].sources = <<ServiceType>>
    /\ defaults' = [defaults EXCEPT ![d].sources = <<ServiceType, "ingress">>]
    /\ period' = NoPeriod
    /\ UNCHANGED <<opConfig, running, ctrlVars, watchVars, zoneVars>>

OperatorNext ==
    \/ EnsureDefaults
    \/ Restart
    \/ Stop
    \/ \E d \in DefaultNames : UserDeleteDefault(d)
    \/ \E d \in DefaultNames : UserEditDefault(d)

OperatorSpec == OperatorInit /\ [][OperatorNext]_vars

PeriodCall(site, res) == \E i \in DOMAIN period.ops : period.ops[i] = <<site, res>>
PeriodCalls(site) == \E i \in DOMAIN period.ops : period.ops[i][1] = site

\* C17: a period issues a create for a default only when its get of that
\* default reported NotFound, the default being absent; when the get failed
\* otherwise the ensure returns an error and no create is issued; and a
\* default that exists is left as it is, edits included.
C17_DefaultsCreatedOnlyIfAbsent ==
    /\ [](period.valid =>
            \A d \in DefaultNames :
                /\ PeriodCalls(<<"create", d>>)
                      => (PeriodCall(<<"get", d>>, "notfound") /\ ~period.before[d].exists)
                /\ PeriodCall(<<"get", d>>, "error")
                      => (~PeriodCalls(<<"create", d>>) /\ d \in period.errs
                          /\ defaults[d] = period.before[d]))
    /\ [][period'.valid =>
            \A d \in DefaultNames : defaults[d].exists => defaults'[d] = defaults[d]]_vars

\* A period has created the missing public default and left alone the
\* private default a user had edited.
C17_Witness ==
    /\ period.valid
    /\ period.before[DefaultExternalDNSPrivateZoneController].sources = <<ServiceType, "ingress">>
    /\ defaults[DefaultExternalDNSPrivateZoneController].sources = <<ServiceType, "ingress">>
    /\ PeriodCall(<<"get", DefaultExternalDNSPrivateZoneController>>, "ok")
    /\ ~period.before[DefaultExternalDNSPublicZoneController].exists
    /\ PeriodCall(<<"create", DefaultExternalDNSPublicZoneController>>, "ok")
    /\ defaults[DefaultExternalDNSPublicZoneController].exists

\* The loop of Start keeps running its function, a period whose calls all
\* succeed is eventually among them, and a crashed operator is started again.
LiveOperatorSpec ==
    /\ OperatorSpec
    /\ WF_vars(EnsureDefaultsOutcome({}, [pages |-> <<(<<ZoneARN("Z1")>>)>>, failAt |-> 0]))
    /\ WF_vars(Restart)

\* C18: while the operator has not been stopped, a default ExternalDNS that
\* is absent eventually exists again; and every period attempts to ensure
\* the public default, whatever became of the private one.
C18_DefaultsEventuallyEnsured ==
    /\ \A d \in DefaultNames :
          (running # "stopped" /\ ~defaults[d].exists)
              ~> (defaults[d].exists \/ running = "stopped")
    /\ [](period.valid => PeriodCalls(<<"get", DefaultExternalDNSPublicZoneController>>))

\* The same for an operator whose dns config has a private zone.
DefaultsEnsuredWithPrivateZone ==
    /\ \A d \in DefaultNames :
          (opConfig.privateZone # Nil /\ running # "stopped" /\ ~defaults[d].exists)
              ~> (defaults[d].exists \/ running = "stopped")
    /\ []((period.valid /\ opConfig.privateZone # Nil)
            => PeriodCalls(<<"get", DefaultExternalDNSPublicZoneController>>))

====
